---- MODULE Spec2Model ----
(***************************************************************************)
(* Model of the websearch plugin: the engine store (load, setEngines,      *)
(* restoreDefaultEngines, the settings editor's handlers) and the query    *)
(* matching of rankItems.                                                  *)
(*                                                                         *)
(* A QString is a sequence of UTF-16 code units: 32 is ' ', 65 'A',        *)
(* 66 'B', 97 'a', 98 'b'.  Engine ids are kept as TLA+ strings ("" is the *)
(* empty QString); nothing in the code looks inside an id.                 *)
(***************************************************************************)
EXTENDS Integers, Sequences, FiniteSets

VARIABLES
    searchEngines_,   \* Plugin::searchEngines_, the list engines() returns
    enginesFile,      \* the persisted engines.json in configLocation()
    op,               \* the operation that produced this state
    loadedFrom,       \* what the last load read: "absent", "corrupt", "json", "defaults", "none"
    input,            \* the JSON array the last load iterated over
    supplied,         \* the list handed to the last setEngines call
    wrote,            \* whether the last setEngines call could open the file for writing
    failures,         \* number of setEngines calls so far that could not write
    query,            \* the query of the last rankItems call
    results           \* what the last rankItems call returned

vars == <<searchEngines_, enginesFile, op, loadedFrom, input, supplied, wrote,
          failures, query, results>>

\* ------------------------------------------------------------------ bounds

MaxEngines == 2
MaxWriteFailures == 1

\* ------------------------------------------------------------------ QString

\* QChar::toLower on the code units of the model's alphabet.
ToLowerChar(c) == IF c \in 65..90 THEN c + 32 ELSE c

\* QString::toLower
toLower(s) == [i \in 1..Len(s) |-> ToLowerChar(s[i])]

\* QString::left(n): the first n code units, the whole string when it is shorter.
left(s, n) == IF n >= Len(s) THEN s ELSE SubSeq(s, 1, n)

\* QString::mid(pos): the code units from position pos (0-based) on.
mid(s, pos) == IF pos >= Len(s) THEN <<>> ELSE SubSeq(s, pos + 1, Len(s))

\* QChar::isSpace on the model's alphabet.
isSpace(c) == c = 32

RECURSIVE TrimLeft(_)
TrimLeft(s) == IF s # <<>> /\ isSpace(Head(s)) THEN TrimLeft(Tail(s)) ELSE s

RECURSIVE TrimRight(_)
TrimRight(s) ==
    IF s # <<>> /\ isSpace(s[Len(s)]) THEN TrimRight(SubSeq(s, 1, Len(s) - 1)) ELSE s

\* QString::trimmed
trimmed(s) == TrimRight(TrimLeft(s))

\* operator<(QString, QString): lexicographic on the code units.
RECURSIVE QStringLess(_, _)
QStringLess(a, b) ==
    IF b = <<>> THEN FALSE
    ELSE IF a = <<>> THEN TRUE
    ELSE IF Head(a) # Head(b) THEN Head(a) < Head(b)
    ELSE QStringLess(Tail(a), Tail(b))

\* ------------------------------------------------------------------ inputs

\* QUuid::createUuid().toString(QUuid::WithoutBraces).left(8): eight hex digits of a
\* random UUID.  Nothing compares the draw with the ids already in use.
Uuids == {"0a1b2c3d", "4e5f6a7b"}

\* What the editor dialog and the inline editor can hand over.
EditorNames == {<<66>>, <<97>>}
EditorTriggers == {<<97>>, <<32, 97>>}
EditorUrls == {<<97>>}

\* Records a persisted engines.json can hold: a current one, one that shares its
\* id, a legacy one (guid, no id, no fallback, untrimmed trigger) and one with
\* neither id nor guid.
FileRecords ==
    { [id |-> "0a1b2c3d", name |-> <<66>>, url |-> <<97>>, trigger |-> <<97>>,
       iconPath |-> ":default", fallback |-> FALSE],
      [id |-> "0a1b2c3d", name |-> <<97>>, url |-> <<97>>, trigger |-> <<97>>,
       iconPath |-> ":default", fallback |-> TRUE],
      [guid |-> "4e5f6a7b", name |-> <<97>>, url |-> <<97>>, trigger |-> <<32, 97>>,
       iconPath |-> ":default"],
      [name |-> <<66>>, url |-> <<97>>, trigger |-> <<97>>, iconPath |-> ":default"] }

RECURSIVE SeqsUpTo(_, _)
SeqsUpTo(S, n) ==
    IF n = 0 THEN {<<>>}
    ELSE LET shorter == SeqsUpTo(S, n - 1)
         IN  shorter \cup {Append(q, x) : q \in {r \in shorter : Len(r) = n - 1}, x \in S}

AbsentFile == [state |-> "absent", array |-> <<>>]
CorruptFile == [state |-> "corrupt", array |-> <<>>]
JsonFile(a) == [state |-> "json", array |-> a]

\* The engines.json the plugin may find when it is constructed.
InitFiles == {AbsentFile, CorruptFile} \cup {JsonFile(a) : a \in SeqsUpTo(FileRecords, MaxEngines)}

\* The built-in ":engines.json" resource: a seed list of the persisted schema.
DefaultsPayload ==
    << [name |-> <<97>>, url |-> <<97>>, trigger |-> <<97>>, iconPath |-> ":default"],
       [name |-> <<66>>, url |-> <<97>>, trigger |-> <<97>>, iconPath |-> ":default",
        fallback |-> TRUE] >>

\* ------------------------------------------------------------------ JSON

\* QJsonObject::contains
contains(o, k) == k \in DOMAIN o

\* o[k].toString() for the QString-valued keys: the empty string when the key is missing.
toString(o, k) == IF contains(o, k) THEN o[k] ELSE <<>>

\* o[k].toString() for the id keys.
toIdString(o, k) == IF contains(o, k) THEN o[k] ELSE ""

\* o[k].toString() for the icon key.
toIconString(o, k) == IF contains(o, k) THEN o[k] ELSE ""

\* o[k].toBool(defaultValue)
toBool(o, k, defaultValue) == IF contains(o, k) THEN o[k] ELSE defaultValue

\* QJsonDocument::fromJson(bytes).array(): a document that does not parse, or is
\* no array, yields the empty array.
fromJsonArray(f) == IF f.state = "json" THEN f.array ELSE <<>>

serializeEngine(e) ==
    [id |-> e.id, name |-> e.name, url |-> e.url, trigger |-> e.trigger,
     iconPath |-> e.icon_path, fallback |-> e.fallback]

serializeEngines(engines) == [i \in 1..Len(engines) |-> serializeEngine(engines[i])]

\* The id a persisted record is loaded with: "id", else the legacy "guid"; a
\* record left with an empty id draws a new one.
storedId(o) ==
    IF contains(o, "id") THEN toIdString(o, "id")
    ELSE IF contains(o, "guid") THEN toIdString(o, "guid")
    ELSE ""

\* A load that takes a missing fallback key for false.
deserializeEngineFallbackOff(o) ==
    { [id |-> i, name |-> toString(o, "name"), trigger |-> trimmed(toString(o, "trigger")),
       icon_path |-> toIconString(o, "iconPath"), url |-> toString(o, "url"),
       fallback |-> toBool(o, "fallback", FALSE)]
      : i \in IF storedId(o) = "" THEN Uuids ELSE {storedId(o)} }

deserializeEngine(o) ==
    { [id |-> i, name |-> toString(o, "name"), trigger |-> trimmed(toString(o, "trigger")),
       icon_path |-> toIconString(o, "iconPath"), url |-> toString(o, "url"),
       fallback |-> toBool(o, "fallback", TRUE)]
      : i \in IF storedId(o) = "" THEN Uuids ELSE {storedId(o)} }

\* Every list deserializeEngines can return for the array a (one per draw of ids).
RECURSIVE deserializeEngines(_)
deserializeEngines(a) ==
    IF a = <<>> THEN {<<>>}
    ELSE {<<e>> \o rest : e \in deserializeEngine(Head(a)), rest \in deserializeEngines(Tail(a))}

defaultEngine(o) ==
    { [id |-> i, name |-> toString(o, "name"), trigger |-> toString(o, "trigger"),
       icon_path |-> toIconString(o, "iconPath"), url |-> toString(o, "url"),
       fallback |-> toBool(o, "fallback", FALSE)]
      : i \in Uuids }

\* The loop of restoreDefaultEngines over the array of the built-in resource.
RECURSIVE defaultEngines(_)
defaultEngines(a) ==
    IF a = <<>> THEN {<<>>}
    ELSE {<<e>> \o rest : e \in defaultEngine(Head(a)), rest \in defaultEngines(Tail(a))}

\* ------------------------------------------------------------------ the store

\* A comparator that ignores case.
nameLessIgnoringCase(a, b) == QStringLess(toLower(a.name), toLower(b.name))

\* The comparator of the sort in setEngines.
nameLess(a, b) == QStringLess(a.name, b.name)

Arrangements(n) == {p \in [1..n -> 1..n] : \A i, j \in 1..n : i # j => p[i] # p[j]}

\* std::sort(begin, end, nameLess): some arrangement of the elements in which no
\* element is less than one before it.  std::sort is not stable, so elements that
\* compare equal may come out in any order.
sortEngines(engines) ==
    { r \in {[i \in 1..Len(engines) |-> engines[p[i]]] : p \in Arrangements(Len(engines))} :
        \A i, j \in 1..Len(r) : i < j => ~nameLess(r[j], r[i]) }

\* Whether a setEngines call may find the file unwritable (bounded per behaviour).
WriteOutcomes(n) == IF n < MaxWriteFailures THEN {TRUE, FALSE} ELSE {TRUE}

\* A setEngines that falls back to the persisted list when it cannot write.
setEnginesRollingBack(engines, f, oks) ==
    { [searchEngines_ |-> IF ok THEN s ELSE CHOOSE l \in deserializeEngines(fromJsonArray(f)) : TRUE,
       enginesFile |-> IF ok THEN JsonFile(serializeEngines(s)) ELSE f,
       wrote |-> ok,
       supplied |-> engines] : s \in sortEngines(engines), ok \in oks }

\* Plugin::setEngines on the file f: the possible outcomes.
setEngines(engines, f, oks) ==
    { [searchEngines_ |-> s,
       enginesFile |-> IF ok THEN JsonFile(serializeEngines(s)) ELSE f,
       wrote |-> ok,
       supplied |-> engines] : s \in sortEngines(engines), ok \in oks }

\* Plugin::restoreDefaultEngines (the built-in resource always opens).
restoreDefaultEngines(f, oks) ==
    UNION {setEngines(engines, f, oks) : engines \in defaultEngines(DefaultsPayload)}

\* Plugin::Plugin
PluginLoad(f, oks) ==
    IF f.state # "absent"
    THEN UNION {setEngines(engines, f, oks) : engines \in deserializeEngines(fromJsonArray(f))}
    ELSE restoreDefaultEngines(f, oks)

\* The array the constructor ends up iterating over.
PluginInput(f) == IF f.state # "absent" THEN fromJsonArray(f) ELSE DefaultsPayload

\* ------------------------------------------------------------------ the settings editor

\* What an accepted SearchEngineEditor holds: the four fields and, when the user
\* picked an image, whether saving it worked ("none", "saved", "failed").  The
\* editors explored pick no image or one that cannot be saved.
EditorIcons == {"none", "failed"}

Editors ==
    [name : EditorNames, trigger : EditorTriggers, url : EditorUrls,
     fallback : BOOLEAN, icon : EditorIcons]

\* handleAcceptedEditor: a failed save of the picked image returns before any
\* field is taken over.
handleAcceptedEditor(editor, engine) ==
    IF editor.icon = "failed" THEN engine
    ELSE [engine EXCEPT
            !.icon_path = IF editor.icon = "saved" THEN "file:" \o engine.id \o ".png" ELSE @,
            !.name = editor.name,
            !.trigger = editor.trigger,
            !.url = editor.url,
            !.fallback = editor.fallback]

\* The default-constructed SearchEngine of onButton_new with its id and icon set;
\* its fallback member has no value yet.
newEngine(uuid, indeterminate) ==
    [id |-> uuid, name |-> <<>>, trigger |-> <<>>, icon_path |-> ":default", url |-> <<>>,
     fallback |-> indeterminate]

\* std::vector::erase(begin() + row), row counted from 1 here.
erase(engines, row) == SubSeq(engines, 1, row - 1) \o SubSeq(engines, row + 1, Len(engines))

\* ------------------------------------------------------------------ actions

\* The state an operation leaves behind, from an outcome of its setEngines call.
Becomes(o, name, from, array) ==
    /\ searchEngines_' = o.searchEngines_
    /\ enginesFile' = o.enginesFile
    /\ wrote' = o.wrote
    /\ supplied' = o.supplied
    /\ failures' = IF o.wrote THEN failures ELSE failures + 1
    /\ op' = name
    /\ loadedFrom' = from
    /\ input' = array
    /\ UNCHANGED <<query, results>>

\* The plugin is unloaded and constructed again on the file it left behind.
Plugin ==
    \E o \in PluginLoad(enginesFile, WriteOutcomes(failures)) :
        Becomes(o, "Plugin", enginesFile.state, PluginInput(enginesFile))

onButton_restoreDefaults ==
    \E o \in restoreDefaultEngines(enginesFile, WriteOutcomes(failures)) :
        Becomes(o, "restoreDefaultEngines", "defaults", DefaultsPayload)

onButton_new ==
    /\ Len(searchEngines_) < MaxEngines
    /\ \E editor \in Editors, uuid \in Uuids :
         \E b \in IF editor.icon = "failed" THEN BOOLEAN ELSE {FALSE} :
            \E o \in setEngines(
                       Append(searchEngines_, handleAcceptedEditor(editor, newEngine(uuid, b))),
                       enginesFile, WriteOutcomes(failures)) :
               Becomes(o, "onButton_new", "none", <<>>)

onActivated ==
    \E row \in 1..Len(searchEngines_), editor \in Editors :
        \E o \in setEngines(
                   [searchEngines_ EXCEPT ![row] = handleAcceptedEditor(editor, @)],
                   enginesFile, WriteOutcomes(failures)) :
            Becomes(o, "onActivated", "none", <<>>)

onButton_remove ==
    \E row \in 1..Len(searchEngines_) :
        \E o \in setEngines(erase(searchEngines_, row), enginesFile, WriteOutcomes(failures)) :
            Becomes(o, "onButton_remove", "none", <<>>)

\* EnginesModel::setData, Section::Trigger with Qt::EditRole
setData_Trigger ==
    \E row \in 1..Len(searchEngines_), value \in EditorTriggers :
        \E o \in setEngines([searchEngines_ EXCEPT ![row].trigger = value],
                            enginesFile, WriteOutcomes(failures)) :
            Becomes(o, "setData_Trigger", "none", <<>>)

\* EnginesModel::setData, Section::Fallback with Qt::CheckStateRole
setData_Fallback ==
    \E row \in 1..Len(searchEngines_), checked \in BOOLEAN :
        \E o \in setEngines([searchEngines_ EXCEPT ![row].fallback = checked],
                            enginesFile, WriteOutcomes(failures)) :
            Becomes(o, "setData_Fallback", "none", <<>>)

\* The plugin right after its construction, on any engines.json it may find.
Init ==
    \E f \in InitFiles :
        \E o \in PluginLoad(f, WriteOutcomes(0)) :
            /\ searchEngines_ = o.searchEngines_
            /\ enginesFile = o.enginesFile
            /\ wrote = o.wrote
            /\ supplied = o.supplied
            /\ failures = IF o.wrote THEN 0 ELSE 1
            /\ op = "Plugin"
            /\ loadedFrom = f.state
            /\ input = PluginInput(f)
            /\ query = <<>>
            /\ results = <<>>

Next ==
    \/ setData_Trigger
    \/ setData_Fallback
    \/ Plugin
    \/ onButton_restoreDefaults
    \/ onButton_new
    \/ onActivated
    \/ onButton_remove

Spec == Init /\ [][Next]_vars

\* ------------------------------------------------------------------ matching

MaxRankEngines == 2
MaxQueryLen == 4

\* The code units queries are typed from.
QueryChars == {32, 65, 97, 98}

Queries == SeqsUpTo(QueryChars, MaxQueryLen)

\* Names and triggers of the engines queries are matched against.
RankNames == {<<>>, <<97>>, <<65, 98>>}
RankTriggers == {<<>>, <<65>>, <<97, 98>>, <<97, 32, 98>>}

\* QString::startsWith
startsWith(s, prefix) == Len(prefix) <= Len(s) /\ SubSeq(s, 1, Len(prefix)) = prefix

\* Matcher(prefix, {}).match(keyword): whether the keyword begins with what was
\* typed, and how much of the keyword was typed.  The score is the fraction
\* num / den of the maximum score.
match(prefix, keyword) ==
    [isMatch |-> startsWith(keyword, prefix),
     score |-> [num |-> Len(prefix), den |-> Len(keyword)]]

\* A comparator that puts the longer candidate first.
lengthGreater(a, b) == Len(a) > Len(b)

\* The comparator of the sort of the two candidates in rankItems.
lengthLess(a, b) == Len(a) < Len(b)

\* std::sort of { e.trigger, e.name } by length: the possible orders.
sortCandidates(e) ==
    { S \in {<<e.trigger, e.name>>, <<e.name, e.trigger>>} : ~lengthLess(S[2], S[1]) }

\* A keyword without the separating space.
keywordWithoutSpace(s) == toLower(s)

\* u"%1 "_s.arg(s.toLower())
keywordOf(s) == toLower(s) \o <<32>>

\* A prefix taken from the query as typed, case kept.
prefixCaseKept(q, keyword) == left(q, Len(keyword))

\* ctx.query().toLower().left(keyword.size())
prefixOf(q, keyword) == left(toLower(q), Len(keyword))

\* buildItem, with the score of the RankItem and the row of the engine it was
\* built for.
buildItem(e, search_term, m, row) ==
    [id |-> e.id, text |-> e.name, term |-> search_term,
     completion |-> e.trigger \o <<32>> \o search_term,
     score |-> m.score, row |-> row]

\* The inner loop of rankItems for one engine over the candidates S: the items it
\* adds to the results (none, or the one of the first candidate that matches).
RECURSIVE rankCandidates(_, _, _, _)
rankCandidates(e, S, q, row) ==
    IF S = <<>> THEN <<>>
    ELSE LET keyword == keywordOf(Head(S))
             prefix == prefixOf(q, keyword)
             m == match(prefix, keyword)
         IN  IF m.isMatch
             THEN <<buildItem(e, mid(q, Len(prefix)), m, row)>>
             ELSE rankCandidates(e, Tail(S), q, row)

\* Plugin::rankItems: every result list the call can return for the query q.
RECURSIVE rankFrom(_, _, _)
rankFrom(engines, row, q) ==
    IF row > Len(engines) THEN {<<>>}
    ELSE { rankCandidates(engines[row], S, q, row) \o rest :
             S \in sortCandidates(engines[row]), rest \in rankFrom(engines, row + 1, q) }

rankItems(engines, q) == rankFrom(engines, 1, q)

\* The engines of the matching specification: any list setEngines can leave.
RankEngines ==
    { [id |-> "0a1b2c3d", name |-> n, trigger |-> t, icon_path |-> ":default",
       url |-> <<97>>, fallback |-> TRUE] : n \in RankNames, t \in RankTriggers }

RankLists == UNION {sortEngines(L) : L \in SeqsUpTo(RankEngines, MaxRankEngines)}

\* A query handed to rankItems is ranked against the engine list.
Query ==
    /\ op = "query"
    /\ \E r \in rankItems(searchEngines_, query) :
        /\ results' = r
        /\ op' = "rankItems"
        /\ UNCHANGED <<searchEngines_, enginesFile, loadedFrom, input, supplied,
                       wrote, failures, query>>

\* The plugin holds some engine list and the host hands it a query.
InitRank ==
    /\ searchEngines_ \in RankLists
    /\ query \in Queries
    /\ enginesFile = JsonFile(serializeEngines(searchEngines_))
    /\ wrote = TRUE
    /\ supplied = searchEngines_
    /\ failures = 0
    /\ op = "query"
    /\ loadedFrom = "none"
    /\ input = <<>>
    /\ results = <<>>

NextRank == Query

SpecRank == InitRank /\ [][NextRank]_vars

\* ------------------------------------------------------------------ fallbacks

\* buildItem as fallbacks calls it, with the row of the engine it was built for.
fallbackItem(e, search_term, row) ==
    [id |-> e.id, text |-> e.name, term |-> search_term,
     completion |-> e.trigger \o <<32>> \o search_term, row |-> row]

\* The loop of fallbacks over the engines from the given row on; 8230 is the
\* ellipsis the conditional substitutes for an empty query.
RECURSIVE fallbacksFrom(_, _, _)
fallbacksFrom(engines, row, q) ==
    IF row > Len(engines) THEN <<>>
    ELSE (IF engines[row].fallback
          THEN <<fallbackItem(engines[row], IF q = <<>> THEN <<8230>> ELSE q, row)>>
          ELSE <<>>) \o fallbacksFrom(engines, row + 1, q)

\* Plugin::fallbacks
fallbacks(engines, q) == IF q # <<>> THEN fallbacksFrom(engines, 1, q) ELSE <<>>

\* The engines of the fallback specification, some of them no fallbacks.
FallbackEngines ==
    { [id |-> i, name |-> n, trigger |-> <<97>>, icon_path |-> ":default",
       url |-> <<97>>, fallback |-> b] : i \in Uuids, n \in EditorNames, b \in BOOLEAN }

FallbackLists == UNION {sortEngines(L) : L \in SeqsUpTo(FallbackEngines, MaxRankEngines)}

\* The host asks for the fallbacks of a query.
Fallbacks ==
    /\ op = "query"
    /\ results' = fallbacks(searchEngines_, query)
    /\ op' = "fallbacks"
    /\ UNCHANGED <<searchEngines_, enginesFile, loadedFrom, input, supplied,
                   wrote, failures, query>>

\* The plugin holds some engine list and the host hands it a query.
InitFallbacks ==
    /\ searchEngines_ \in FallbackLists
    /\ query \in Queries
    /\ enginesFile = JsonFile(serializeEngines(searchEngines_))
    /\ wrote = TRUE
    /\ supplied = searchEngines_
    /\ failures = 0
    /\ op = "query"
    /\ loadedFrom = "none"
    /\ input = <<>>
    /\ results = <<>>

NextFallbacks == Fallbacks

SpecFallbacks == InitFallbacks /\ [][NextFallbacks]_vars

\* ------------------------------------------------------------------ claims about matching

\* The results built for the engine in the given row.
ResultsFor(row) == {k \in DOMAIN results : results[k].row = row}

\* The score is the fraction n / d of the maximum score.
ScoreIs(r, n, d) == r.score.num * d = n * r.score.den

\* The query is the string s followed by something (possibly nothing).
QueryBeginsWith(s) == Len(s) <= Len(query) /\ SubSeq(query, 1, Len(s)) = s

\* What follows the first n code units of the query.
QueryAfter(n) == SubSeq(query, n + 1, Len(query))

HasSpace(s) == \E i \in DOMAIN s : s[i] = 32

\* The engine in this row gets a result of maximum score whose search term is
\* what follows its trigger and a space in the query.
FullTriggerMatch(row) ==
    LET T == searchEngines_[row].trigger
    IN  \E k \in ResultsFor(row) :
            /\ ScoreIs(results[k], 1, 1)
            /\ results[k].term = QueryAfter(Len(T) + 1)

\* C3 (as claimed): for every engine E with a non-empty trigger T, whatever its
\* name, the query T + " " + anything yields a result for E with the maximum
\* score and the residual search term "anything".
C3_FullTriggerAnyName ==
    op = "rankItems" =>
        \A row \in DOMAIN searchEngines_ :
            LET T == searchEngines_[row].trigger
            IN  (T # <<>> /\ QueryBeginsWith(T \o <<32>>)) => FullTriggerMatch(row)

\* C3 (amended): for every engine E with a non-empty trigger T that contains no
\* whitespace, whatever its name, the query T + " " + anything yields a result
\* for E with the maximum score and the residual search term "anything".
C3_FullTriggerNoSpace ==
    op = "rankItems" =>
        \A row \in DOMAIN searchEngines_ :
            LET T == searchEngines_[row].trigger
            IN  (T # <<>> /\ ~HasSpace(T) /\ QueryBeginsWith(T \o <<32>>))
                    => FullTriggerMatch(row)

\* C3 witness: "ab b" has been ranked against an engine with trigger "ab" and
\* the shorter name "a", and gave the residual "b" at the maximum score.
C3_Witness ==
    /\ op = "rankItems"
    /\ query = <<97, 98, 32, 98>>
    /\ \E row \in DOMAIN searchEngines_ :
        /\ searchEngines_[row].trigger = <<97, 98>>
        /\ searchEngines_[row].name = <<97>>
        /\ \E k \in ResultsFor(row) :
            results[k].term = <<98>> /\ results[k].score.num = results[k].score.den

\* The query is a strict prefix of the trigger T followed by a space.
StrictPrefixOfTrigger(T) ==
    Len(query) < Len(T) + 1 /\ SubSeq(T \o <<32>>, 1, Len(query)) = query

\* C4 (as claimed): for every engine E with trigger T and every query p that is a
\* strict prefix of T + " ", there is a result for E with the score
\* MAX_SCORE * len(p) / (len(T) + 1), regardless of E's name.
C4_PrefixScoreAnyName ==
    op = "rankItems" =>
        \A row \in DOMAIN searchEngines_ :
            LET T == searchEngines_[row].trigger
            IN  StrictPrefixOfTrigger(T) =>
                    \E k \in ResultsFor(row) : ScoreIs(results[k], Len(query), Len(T) + 1)

\* The name of the engine is shorter than its trigger T and, followed by a space,
\* begins with the first len(name) + 1 characters of the query, case ignored.
ShorterNameMatches(row) ==
    LET e == searchEngines_[row]
        p == query
        n == Len(e.name) + 1
        typed == IF Len(p) <= n THEN p ELSE SubSeq(p, 1, n)
    IN  /\ Len(e.name) < Len(e.trigger)
        /\ Len(typed) <= n
        /\ \A i \in DOMAIN typed :
              ToLowerChar(typed[i]) = IF i = n THEN 32 ELSE ToLowerChar(e.name[i])

\* C4 (amended): for every engine E with trigger T and every query p that is a
\* strict prefix of T + " ", there is a result for E; its score is
\* MAX_SCORE * len(p) / (len(T) + 1) unless E's name is shorter than T and
\* name + " " begins with the first len(name) + 1 characters of p (case ignored),
\* and then it is MAX_SCORE * min(len(p), len(name) + 1) / (len(name) + 1).
C4_PrefixScore ==
    op = "rankItems" =>
        \A row \in DOMAIN searchEngines_ :
            LET T == searchEngines_[row].trigger
                n == Len(searchEngines_[row].name) + 1
            IN  StrictPrefixOfTrigger(T) =>
                    \E k \in ResultsFor(row) :
                        IF ShorterNameMatches(row)
                        THEN ScoreIs(results[k], IF Len(query) < n THEN Len(query) ELSE n, n)
                        ELSE ScoreIs(results[k], Len(query), Len(T) + 1)

\* C4 witness: "a" has been ranked against an engine with trigger "ab" and the
\* name "Ab", and scored a third of the maximum.
C4_Witness ==
    /\ op = "rankItems"
    /\ query = <<97>>
    /\ \E row \in DOMAIN searchEngines_ :
        /\ searchEngines_[row].trigger = <<97, 98>>
        /\ searchEngines_[row].name = <<65, 98>>
        /\ \E k \in ResultsFor(row) : results[k].score = [num |-> 1, den |-> 3]

\* Whether the candidate s, tested alone, matches the query.
CandidateMatches(s) == match(prefixOf(query, keywordOf(s)), keywordOf(s)).isMatch

\* The shorter of the trigger and the name of an engine.
ShorterCandidate(e) == IF Len(e.trigger) <= Len(e.name) THEN e.trigger ELSE e.name

\* C5: rankItems emits at most one result per engine, and when both the trigger
\* and the name of an engine match the query, the score and the residual of its
\* result are those computed from the shorter of the two.
C5_ShortestCandidateFirst ==
    op = "rankItems" =>
        \A row \in DOMAIN searchEngines_ :
            LET e == searchEngines_[row]
                keyword == keywordOf(ShorterCandidate(e))
                prefix == prefixOf(query, keyword)
            IN  /\ Cardinality(ResultsFor(row)) <= 1
                /\ (CandidateMatches(e.trigger) /\ CandidateMatches(e.name)) =>
                       \E k \in ResultsFor(row) :
                           /\ results[k].score = match(prefix, keyword).score
                           /\ results[k].term = QueryAfter(Len(prefix))

\* C5 witness: a non-empty query has been ranked against an engine whose trigger
\* and name both match it and differ in length.
C5_Witness ==
    /\ op = "rankItems"
    /\ query # <<>>
    /\ \E row \in DOMAIN searchEngines_ :
        /\ Len(searchEngines_[row].trigger) # Len(searchEngines_[row].name)
        /\ CandidateMatches(searchEngines_[row].trigger)
        /\ CandidateMatches(searchEngines_[row].name)
        /\ ResultsFor(row) # {}

\* C6 (as claimed): for the empty query rankItems returns no results, whatever
\* the engine list.
C6_EmptyQueryNoResults == (op = "rankItems" /\ query = <<>>) => results = <<>>

\* C13 (as claimed): an empty candidate takes no part in matching. An engine
\* whose trigger is empty, and whose name is empty or does not match the query,
\* gets no result from rankItems.
C13_EmptyTriggerNeverMatches ==
    op = "rankItems" =>
        \A row \in DOMAIN searchEngines_ :
            (/\ searchEngines_[row].trigger = <<>>
             /\ \/ searchEngines_[row].name = <<>>
                \/ ~CandidateMatches(searchEngines_[row].name))
            => ResultsFor(row) = {}

\* ------------------------------------------------------------------ claims about the store

\* a <= b in the ordinal order of the code units.
OrdinalLeq(a, b) ==
    \/ Len(a) <= Len(b) /\ SubSeq(b, 1, Len(a)) = a
    \/ \E i \in 1..Len(a) :
          /\ i <= Len(b)
          /\ SubSeq(a, 1, i - 1) = SubSeq(b, 1, i - 1)
          /\ a[i] < b[i]

\* C1: in every reachable state the list engines() returns is sorted ascending
\* by name, compared code unit by code unit (case-sensitive).
C1_SortedByName ==
    \A i, j \in DOMAIN searchEngines_ :
        i < j => OrdinalLeq(searchEngines_[i].name, searchEngines_[j].name)

\* C1 witness: the editor has appended an engine named "B" to a list holding one
\* named "a", and setEngines has moved it to the front.
C1_Witness ==
    /\ op = "onButton_new"
    /\ Len(searchEngines_) = 2
    /\ supplied # searchEngines_
    /\ searchEngines_[1].name = <<66>>
    /\ searchEngines_[2].name = <<97>>

\* C2 (as claimed): in every reachable state the ids of the engines in the list
\* are pairwise distinct.
C2_IdsDistinct ==
    \A i, j \in DOMAIN searchEngines_ : i # j => searchEngines_[i].id # searchEngines_[j].id

\* The list is the built-in seed list, as restoreDefaultEngines leaves it.
IsDefaultSeedList ==
    \E L \in defaultEngines(DefaultsPayload) : searchEngines_ \in sortEngines(L)

\* C7 (as claimed): a construction that finds the engines file absent, or finds
\* it unreadable or corrupt, ends with the built-in default seed list.
C7_CorruptFallsBackToDefaults ==
    (op = "Plugin" /\ loadedFrom \in {"absent", "corrupt"}) => IsDefaultSeedList

\* The fallback flag a record is to be loaded with, given the default of its path.
ExpectedFallback(o, default) == IF "fallback" \in DOMAIN o THEN o["fallback"] ELSE default

\* The engines are the records last read, row for row in some order, with the
\* expected fallback flags.
LoadedWithDefault(default) ==
    /\ Len(searchEngines_) = Len(input)
    /\ \E p \in Arrangements(Len(input)) :
          \A i \in DOMAIN input :
              /\ searchEngines_[i].name = (IF "name" \in DOMAIN input[p[i]]
                                           THEN input[p[i]]["name"] ELSE <<>>)
              /\ searchEngines_[i].fallback = ExpectedFallback(input[p[i]], default)

\* C8: a record without the fallback key is loaded with fallback = true from the
\* persisted configuration and with fallback = false from the built-in defaults;
\* a record with the key keeps its value on both paths.
C8_FallbackDefaults ==
    /\ loadedFrom = "json" => LoadedWithDefault(TRUE)
    /\ loadedFrom \in {"absent", "defaults"} => LoadedWithDefault(FALSE)

\* C8 witness: the constructor has loaded a persisted array holding a record
\* without the fallback key and one that stores fallback = false.
C8_Witness ==
    /\ op = "Plugin"
    /\ loadedFrom = "json"
    /\ \E i \in DOMAIN input : "fallback" \notin DOMAIN input[i]
    /\ \E i \in DOMAIN input : "fallback" \in DOMAIN input[i] /\ ~input[i]["fallback"]
    /\ \E i \in DOMAIN searchEngines_ : searchEngines_[i].fallback
    /\ \E i \in DOMAIN searchEngines_ : ~searchEngines_[i].fallback

IdsOf(engines) == [i \in DOMAIN engines |-> engines[i].id]

\* C9 (as claimed): once setEngines has written the list, constructing the plugin
\* again yields the same engines, in the same order and with the same ids.
C9_RoundTrip ==
    [][(wrote /\ op' = "Plugin") =>
          /\ IdsOf(searchEngines_') = IdsOf(searchEngines_)
          /\ searchEngines_' = searchEngines_]_vars

\* One list is a rearrangement of the other.
IsRearrangement(a, b) ==
    /\ Len(a) = Len(b)
    /\ \E p \in Arrangements(Len(b)) : \A i \in DOMAIN a : a[i] = b[p[i]]

\* C10: when setEngines cannot open the engines file for writing, engines() is
\* the list it was given, sorted by name: nothing is rolled back.
C10_NoRollback ==
    ~wrote =>
        /\ IsRearrangement(searchEngines_, supplied)
        /\ \A i, j \in DOMAIN searchEngines_ :
              i < j => OrdinalLeq(searchEngines_[i].name, searchEngines_[j].name)

\* C10 witness: a fallback toggle could not be written; the list in memory has
\* the toggled flag and differs from the persisted one.
C10_Witness ==
    /\ op = "setData_Fallback"
    /\ ~wrote
    /\ enginesFile.state = "json"
    /\ Len(enginesFile.array) = Len(searchEngines_)
    /\ enginesFile.array # serializeEngines(searchEngines_)

\* The string neither begins nor ends with whitespace.
IsStripped(s) == s = <<>> \/ (s[1] # 32 /\ s[Len(s)] # 32)

\* C12 (as claimed): in every reachable state the trigger of every engine in the
\* list has no leading or trailing whitespace, whichever path wrote it (load,
\* restoreDefaultEngines, the editor dialog, the inline trigger edit).
C12_TriggersStripped ==
    \A i \in DOMAIN searchEngines_ : IsStripped(searchEngines_[i].trigger)

\* ------------------------------------------------------------------ claims about fallbacks

\* C11 (as claimed): fallbacks(query) returns exactly one item per engine whose
\* fallback flag is set, in the order of the engine list, and none for the other
\* engines; the term of each item is the query, or the ellipsis when the query is
\* empty, so that an empty query still yields the fallback items.
C11_FallbackItems ==
    op = "fallbacks" =>
        /\ \A row \in DOMAIN searchEngines_ :
              IF searchEngines_[row].fallback
              THEN /\ Cardinality(ResultsFor(row)) = 1
                   /\ \A k \in ResultsFor(row) :
                         /\ results[k].id = searchEngines_[row].id
                         /\ results[k].term = (IF query = <<>> THEN <<8230>> ELSE query)
              ELSE ResultsFor(row) = {}
        /\ \A k \in DOMAIN results : results[k].row \in DOMAIN searchEngines_
        /\ \A k1, k2 \in DOMAIN results : k1 < k2 => results[k1].row < results[k2].row

====
